---------------------------- MODULE Spec2Model ----------------------------
(***************************************************************************)
(* Model of CloudStorageURLSigner (gcs-signed-url-example.py): the         *)
(* construction of a signer, the canonical signature string, the signed    *)
(* URL, and the Get / Put / Delete wrappers that hand the signed request   *)
(* to the HTTP session.                                                    *)
(*                                                                         *)
(* Python 2 byte strings are sequences of one-character strings; raw       *)
(* bytes (the data of a Put, digests, signatures) are sequences of         *)
(* integers in 0..255.                                                     *)
(***************************************************************************)
EXTENDS Integers, Sequences, FiniteSets, TLC

VARIABLES
  now,          \* the wall clock read by datetime.datetime.now()
  signer,       \* the CloudStorageURLSigner instance (its attributes)
  constructed,  \* history: the attributes as __init__ left them
  supplied,     \* history: the arguments given to __init__
  call,         \* the latest Get / Put / Delete invocation and what it did
  prev,         \* the invocation before it: how it ended and, when Puts
                \* are compared (PutSpec), all of it
  thr           \* per thread: the locals and position of a call in progress

vars == <<now, signer, constructed, supplied, call, prev, thr>>

---------------------------------------------------------------------------
(* Bounds of the model. *)

\* how many times the clock advances (half a second each time)
MaxTicks == 2

\* how many threads share the signer in ConcSpec
NumThreads == 2

---------------------------------------------------------------------------
(* Text and bytes. *)

NL == "\n"

UpperChars ==
  <<"A", "B", "C", "D", "E", "F", "G", "H", "I", "J", "K", "L", "M",
    "N", "O", "P", "Q", "R", "S", "T", "U", "V", "W", "X", "Y", "Z">>

LowerChars ==
  <<"a", "b", "c", "d", "e", "f", "g", "h", "i", "j", "k", "l", "m",
    "n", "o", "p", "q", "r", "s", "t", "u", "v", "w", "x", "y", "z">>

DigitChars == <<"0", "1", "2", "3", "4", "5", "6", "7", "8", "9">>

\* the byte values (ASCII) of the characters that occur
OrdTable ==
  [c \in {NL, " ", "+", "-", ".", "/", ":", "=", "@"} |->
     CASE c = NL -> 10
       [] c = " " -> 32
       [] c = "+" -> 43
       [] c = "-" -> 45
       [] c = "." -> 46
       [] c = "/" -> 47
       [] c = ":" -> 58
       [] c = "=" -> 61
       [] c = "@" -> 64]
  @@ [c \in {DigitChars[i] : i \in 1..10} |->
        47 + (CHOOSE i \in 1..10 : DigitChars[i] = c)]
  @@ [c \in {UpperChars[i] : i \in 1..26} |->
        64 + (CHOOSE i \in 1..26 : UpperChars[i] = c)]
  @@ [c \in {LowerChars[i] : i \in 1..26} |->
        96 + (CHOOSE i \in 1..26 : LowerChars[i] = c)]

\* ord(c)
Ord(c) == OrdTable[c]

\* the bytes of a byte string
Bytes(s) == [i \in 1..Len(s) |-> Ord(s[i])]

RECURSIVE DecDigits(_)
DecDigits(n) ==
  IF n < 10 THEN <<DigitChars[n + 1]>>
  ELSE DecDigits(n \div 10) \o <<DigitChars[(n % 10) + 1]>>

\* str(n) and '{}'.format(n) of a Python int: its decimal digits
Str(n) == IF n < 0 THEN <<"-">> \o DecDigits(0 - n) ELSE DecDigits(n)

B64Alphabet ==
  <<"A", "B", "C", "D", "E", "F", "G", "H", "I", "J", "K", "L", "M", "N", "O", "P",
    "Q", "R", "S", "T", "U", "V", "W", "X", "Y", "Z", "a", "b", "c", "d", "e", "f",
    "g", "h", "i", "j", "k", "l", "m", "n", "o", "p", "q", "r", "s", "t", "u", "v",
    "w", "x", "y", "z", "0", "1", "2", "3", "4", "5", "6", "7", "8", "9", "+", "/">>

B64Char(v) == B64Alphabet[v + 1]

\* base64.b64encode: standard alphabet, '=' padding, no line breaks.  Each
\* group of three bytes gives four characters; a final group of one or two
\* bytes is padded.
b64encode(b) ==
  LET n == Len(b)
      byte(i) == IF i <= n THEN b[i] ELSE 0
      char(k) ==
        LET g == (k - 1) \div 4
            j == (k - 1) % 4
            b1 == byte(3 * g + 1)
            b2 == byte(3 * g + 2)
            b3 == byte(3 * g + 3)
        IN  CASE j = 0 -> B64Char(b1 \div 4)
              [] j = 1 -> B64Char((b1 % 4) * 16 + b2 \div 16)
              [] j = 2 -> IF 3 * g + 2 > n THEN "="
                          ELSE B64Char((b2 % 16) * 4 + b3 \div 64)
              [] j = 3 -> IF 3 * g + 3 > n THEN "=" ELSE B64Char(b3 % 64)
  IN  [k \in 1..(4 * ((n + 2) \div 3)) |-> char(k)]

RECURSIVE SumBytes(_)
SumBytes(b) == IF Len(b) = 0 THEN 0 ELSE b[1] + SumBytes(Tail(b))

\* md5.new(data).digest(): a 16-byte digest of the data.  The library's
\* compression function is replaced by a small checksum, which, like any
\* digest, is a function of the data alone and maps distinct data to the
\* same digest now and then (here: data with equal length and byte sum).
md5_digest_of(data) ==
  [i \in 1..16 |-> (SumBytes(data) * i + Len(data) + 7 * i) % 256]

\* SHA256.new(plaintext): the hash object of the plaintext.  The library's
\* hash is taken collision-free: the digest stands for the bytes it hashes.
SHA256_new(plaintext) == Bytes(plaintext)

\* PKCS1_v1_5.new(key).sign(shahash): the signature bytes, a deterministic
\* function of the key and the digest that no other key or digest yields.
PKCS1_sign(key, shahash) == <<key.id>> \o shahash

---------------------------------------------------------------------------
(* The values the program is run with. *)

\* GCS_API_ENDPOINT = 'https://storage.googleapis.com'
GCS_API_ENDPOINT ==
  <<"h", "t", "t", "p", "s", ":", "/", "/", "s", "t", "o", "r", "a", "g", "e", ".",
    "g", "o", "o", "g", "l", "e", "a", "p", "i", "s", ".", "c", "o", "m">>

\* a key is absent (None) or a PyCrypto private key
NoKey == [present |-> FALSE, id |-> 0]
Keys == {NoKey, [present |-> TRUE, id |-> 1], [present |-> TRUE, id |-> 2]}

EmptyString == <<>>
TestIdentity == <<"t", "e", "s", "t", "@", "e", "x", ".", "c", "o", "m">>
Identities == {EmptyString, TestIdentity}

\* a datetime.datetime (local time), by the Unix second it falls in and its
\* microseconds; None is the record that is not given
NoDatetime == [given |-> FALSE, sec |-> 0, usec |-> 0]
PastDatetime == [given |-> TRUE, sec |-> 1262304000, usec |-> 250000]
FutureDatetime == [given |-> TRUE, sec |-> 1893456000, usec |-> 0]
ExpirationArgs == {NoDatetime, PastDatetime, FutureDatetime}

ObjectPath ==
  <<"/", "b", "u", "c", "k", "e", "t", "/", "o", "b", "j", "e", "c", "t", ".", "t", "x", "t">>
NewlinePath == <<"/", "b", NL, "o">>
Paths == {ObjectPath, NewlinePath}

TextPlain == <<"t", "e", "x", "t", "/", "p", "l", "a", "i", "n">>
ImagePng == <<"i", "m", "a", "g", "e", "/", "p", "n", "g">>
ContentTypes == {TextPlain, ImagePng}

\* 'blah blah', and two bodies that differ in every byte and share a digest
BlahBlah == <<98, 108, 97, 104, 32, 98, 108, 97, 104>>
Datas == {BlahBlah, <<1, 2>>, <<2, 1>>}

Outcomes == {"response", "transport_error"}

---------------------------------------------------------------------------
(* The signer: __init__ and the signing helpers. *)

\* the seconds of datetime.timedelta(days=1)
SecondsPerDay == 86400

\* datetime.datetime.now() + datetime.timedelta(days=1)
DefaultExpiration(t) ==
  [given |-> TRUE, sec |-> t.sec + SecondsPerDay, usec |-> t.usec]

\* datetime.timetuple(): the broken-down local time; it has no microseconds
timetuple(dt) == [sec |-> dt.sec]

\* int(time.mktime(tt)): the Unix seconds of a broken-down local time
mktime(tt) == tt.sec

\* the signer before __init__ has run
NotConstructed ==
  [alive |-> FALSE, key |-> NoKey, client_id_email |-> EmptyString,
   gcs_api_endpoint |-> EmptyString, expiration |-> 0]

\* __init__ as it would be if it filled in a name for an empty identity
CloudStorageURLSignerNamesAnonymous(key, client_id_email, gcs_api_endpoint, expiration, t) ==
  LET chosen == IF expiration.given THEN expiration ELSE DefaultExpiration(t)
  IN  [alive |-> TRUE,
       key |-> key,
       client_id_email |-> IF client_id_email = EmptyString
                           THEN <<"a", "n", "o", "n">> ELSE client_id_email,
       gcs_api_endpoint |-> gcs_api_endpoint,
       expiration |-> mktime(timetuple(chosen))]

\* __init__ as it would be if it replaced an expiration that has passed
CloudStorageURLSignerReplacesPast(key, client_id_email, gcs_api_endpoint, expiration, t) ==
  LET chosen == IF expiration.given /\ expiration.sec >= t.sec
                THEN expiration ELSE DefaultExpiration(t)
  IN  [alive |-> TRUE,
       key |-> key,
       client_id_email |-> client_id_email,
       gcs_api_endpoint |-> gcs_api_endpoint,
       expiration |-> mktime(timetuple(chosen))]

\* CloudStorageURLSigner.__init__ at clock t: the attributes it sets.  No
\* argument is examined except expiration, which is replaced when it is None.
\* (self.session is the transport the calls below hand their requests to.)
CloudStorageURLSigner(key, client_id_email, gcs_api_endpoint, expiration, t) ==
  LET chosen == IF expiration.given THEN expiration ELSE DefaultExpiration(t)
  IN  [alive |-> TRUE,
       key |-> key,
       client_id_email |-> client_id_email,
       gcs_api_endpoint |-> gcs_api_endpoint,
       expiration |-> mktime(timetuple(chosen))]

\* _Base64Sign: the base64 of the signature of the SHA256 of plaintext.
\* signer.sign raises when self.key is None (it reads the key's attributes).
Base64Sign(self, plaintext) ==
  IF ~self.key.present
  THEN [raised |-> TRUE, value |-> EmptyString]
  ELSE [raised |-> FALSE,
        value |-> b64encode(PKCS1_sign(self.key, SHA256_new(plaintext)))]

\* _MakeSignatureString as it would be with the two content fields exchanged
MakeSignatureStringExchanged(self, verb, path, content_md5, content_type) ==
  verb \o <<NL>> \o
  content_type \o <<NL>> \o
  content_md5 \o <<NL>> \o
  Str(self.expiration) \o <<NL>> \o
  path

\* _MakeSignatureString as it would be with a newline after the last field
MakeSignatureStringTerminated(self, verb, path, content_md5, content_type) ==
  verb \o <<NL>> \o
  content_md5 \o <<NL>> \o
  content_type \o <<NL>> \o
  Str(self.expiration) \o <<NL>> \o
  path \o <<NL>>

\* _MakeSignatureString
MakeSignatureString(self, verb, path, content_md5, content_type) ==
  verb \o <<NL>> \o
  content_md5 \o <<NL>> \o
  content_type \o <<NL>> \o
  Str(self.expiration) \o <<NL>> \o
  path

\* the dict built at lines 90-92
QueryParams(self, signature_signed) ==
  [GoogleAccessId |-> self.client_id_email,
   Expires |-> Str(self.expiration),
   Signature |-> signature_signed]

\* _MakeUrl as it would be if it signed the URL instead of the signature string
MakeUrlSignsBaseUrl(self, verb, path, content_type, content_md5) ==
  LET base_url == self.gcs_api_endpoint \o path
      signature_string ==
        verb \o <<NL>> \o content_md5 \o <<NL>> \o content_type \o <<NL>> \o
        Str(self.expiration) \o <<NL>> \o path
      signed ==
        IF ~self.key.present
        THEN [raised |-> TRUE, value |-> EmptyString]
        ELSE [raised |-> FALSE,
              value |-> b64encode(PKCS1_sign(self.key, SHA256_new(base_url)))]
  IN  [raised |-> signed.raised,
       base_url |-> base_url,
       signature_string |-> signature_string,
       query_params |-> [GoogleAccessId |-> self.client_id_email,
                         Expires |-> Str(self.expiration),
                         Signature |-> signed.value]]

\* _MakeUrl: (base_url, query_params), or the exception of _Base64Sign;
\* signature_string is the local that was signed
MakeUrl(self, verb, path, content_type, content_md5) ==
  LET base_url == self.gcs_api_endpoint \o path
      signature_string ==
        MakeSignatureString(self, verb, path, content_md5, content_type)
      signed == Base64Sign(self, signature_string)
  IN  [raised |-> signed.raised,
       base_url |-> base_url,
       signature_string |-> signature_string,
       query_params |-> QueryParams(self, signed.value)]

---------------------------------------------------------------------------
(* Get, Put and Delete.  An invocation is recorded with its arguments, the *)
(* string it signed, the requests it handed to the session (in order), and *)
(* how it ended: the session's response, the session's exception, or the   *)
(* exception raised while signing.                                         *)

VerbGET == <<"G", "E", "T">>
VerbPUT == <<"P", "U", "T">>
VerbDELETE == <<"D", "E", "L", "E", "T", "E">>

NoCall ==
  [op |-> "none", path |-> EmptyString, content_type |-> EmptyString,
   data |-> <<>>, content_md5 |-> EmptyString,
   signature_string |-> EmptyString, requests |-> <<>>, outcome |-> "none"]

\* one call of the session: session.get / session.put / session.delete
Request(method, url, params, headers, data) ==
  [method |-> method, url |-> url, params |-> params, headers |-> headers,
   data |-> data]

\* the headers dict of Put, as its set of (name, value) items
PutHeaders(content_type, data, md5_digest) ==
  {<<"Content-Type", content_type>>,
   <<"Content-Length", Str(Len(data))>>,
   <<"Content-MD5", md5_digest>>}

Get(self, path, outcome) ==
  LET u == MakeUrl(self, VerbGET, path, EmptyString, EmptyString)
  IN  [op |-> "Get", path |-> path, content_type |-> EmptyString, data |-> <<>>,
       content_md5 |-> EmptyString,
       signature_string |-> u.signature_string,
       requests |-> IF u.raised THEN <<>>
                    ELSE <<Request(VerbGET, u.base_url, u.query_params, {}, <<>>)>>,
       outcome |-> IF u.raised THEN "signing_error" ELSE outcome]

\* Put as it would be if it left content_md5 at its default when signing
PutOmitsDigest(self, path, content_type, data, outcome) ==
  LET md5_digest == b64encode(md5_digest_of(data))
      u == MakeUrl(self, VerbPUT, path, content_type, EmptyString)
      headers == PutHeaders(content_type, data, md5_digest)
  IN  [op |-> "Put", path |-> path, content_type |-> content_type, data |-> data,
       content_md5 |-> EmptyString,
       signature_string |-> u.signature_string,
       requests |-> IF u.raised THEN <<>>
                    ELSE <<Request(VerbPUT, u.base_url, u.query_params, headers, data)>>,
       outcome |-> IF u.raised THEN "signing_error" ELSE outcome]

\* Put as it would be if it sent the request again when the session raised
PutRetries(self, path, content_type, data, outcome) ==
  LET md5_digest == b64encode(md5_digest_of(data))
      u == MakeUrl(self, VerbPUT, path, content_type, md5_digest)
      headers == PutHeaders(content_type, data, md5_digest)
      request == Request(VerbPUT, u.base_url, u.query_params, headers, data)
  IN  [op |-> "Put", path |-> path, content_type |-> content_type, data |-> data,
       content_md5 |-> md5_digest,
       signature_string |-> u.signature_string,
       requests |-> IF u.raised THEN <<>>
                    ELSE IF outcome = "transport_error" THEN <<request, request>>
                    ELSE <<request>>,
       outcome |-> IF u.raised THEN "signing_error" ELSE outcome]

Put(self, path, content_type, data, outcome) ==
  LET md5_digest == b64encode(md5_digest_of(data))
      u == MakeUrl(self, VerbPUT, path, content_type, md5_digest)
      headers == PutHeaders(content_type, data, md5_digest)
  IN  [op |-> "Put", path |-> path, content_type |-> content_type, data |-> data,
       content_md5 |-> md5_digest,
       signature_string |-> u.signature_string,
       requests |-> IF u.raised THEN <<>>
                    ELSE <<Request(VerbPUT, u.base_url, u.query_params, headers, data)>>,
       outcome |-> IF u.raised THEN "signing_error" ELSE outcome]

\* Delete as it would be if its signing line were copied from Get unchanged
DeleteSignsGet(self, path, outcome) ==
  LET u == MakeUrl(self, VerbGET, path, EmptyString, EmptyString)
  IN  [op |-> "Delete", path |-> path, content_type |-> EmptyString, data |-> <<>>,
       content_md5 |-> EmptyString,
       signature_string |-> u.signature_string,
       requests |-> IF u.raised THEN <<>>
                    ELSE <<Request(VerbDELETE, u.base_url, u.query_params, {}, <<>>)>>,
       outcome |-> IF u.raised THEN "signing_error" ELSE outcome]

Delete(self, path, outcome) ==
  LET u == MakeUrl(self, VerbDELETE, path, EmptyString, EmptyString)
  IN  [op |-> "Delete", path |-> path, content_type |-> EmptyString, data |-> <<>>,
       content_md5 |-> EmptyString,
       signature_string |-> u.signature_string,
       requests |-> IF u.raised THEN <<>>
                    ELSE <<Request(VerbDELETE, u.base_url, u.query_params, {}, <<>>)>>,
       outcome |-> IF u.raised THEN "signing_error" ELSE outcome]

---------------------------------------------------------------------------
(* One caller: a signer is constructed, then used for any calls. *)

Threads == 1..NumThreads

Idle ==
  [pc |-> "idle", op |-> "none", path |-> EmptyString,
   content_type |-> EmptyString, data |-> <<>>, md5_digest |-> EmptyString,
   base_url |-> EmptyString, signature_string |-> EmptyString,
   signature_signed |-> EmptyString,
   query_params |-> [GoogleAccessId |-> EmptyString, Expires |-> EmptyString,
                     Signature |-> EmptyString],
   requests |-> <<>>, outcome |-> "none"]

StartOfClock == [sec |-> 1790000000, usec |-> 0]

Ticks(t) == (t.sec - StartOfClock.sec) * 2 + (IF t.usec = 0 THEN 0 ELSE 1)

\* the arguments of a construction
Arguments(key, client_id_email, gcs_api_endpoint, expiration) ==
  [key |-> key, client_id_email |-> client_id_email,
   gcs_api_endpoint |-> gcs_api_endpoint, expiration |-> expiration]

NoArguments == Arguments(NoKey, EmptyString, EmptyString, NoDatetime)

Init ==
  /\ now = StartOfClock
  /\ signer = NotConstructed
  /\ constructed = NotConstructed
  /\ supplied = NoArguments
  /\ call = NoCall
  /\ prev = NoCall
  /\ thr = [t \in Threads |-> Idle]

\* time passes, half a second at a time
Tick ==
  /\ Ticks(now) < MaxTicks
  /\ now' = IF now.usec = 0 THEN [sec |-> now.sec, usec |-> 500000]
            ELSE [sec |-> now.sec + 1, usec |-> 0]
  /\ UNCHANGED <<signer, constructed, supplied, call, prev, thr>>

\* signer = CloudStorageURLSigner(key, email, endpoint[, expiration])
Construct ==
  /\ ~signer.alive
  /\ \E key \in Keys, client_id_email \in Identities, expiration \in ExpirationArgs :
       /\ signer' = CloudStorageURLSigner(key, client_id_email, GCS_API_ENDPOINT,
                                          expiration, now)
       /\ supplied' = Arguments(key, client_id_email, GCS_API_ENDPOINT, expiration)
  /\ constructed' = signer'
  /\ UNCHANGED <<now, call, prev, thr>>

\* what is remembered of an invocation once the next one is made
Ended(c) == [NoCall EXCEPT !.outcome = c.outcome]

\* r = signer.Get(path), as it would be if Get pushed the expiration back a
\* day whenever the session raised
CallGetRefreshes ==
  /\ signer.alive
  /\ \E path \in Paths, outcome \in Outcomes :
       /\ call' = Get(signer, path, outcome)
       /\ signer' = IF call'.outcome = "transport_error"
                    THEN [signer EXCEPT
                            !.expiration = constructed.expiration + SecondsPerDay]
                    ELSE signer
  /\ prev' = Ended(call)
  /\ UNCHANGED <<now, constructed, supplied, thr>>

\* r = signer.Get(path)
CallGet ==
  /\ signer.alive
  /\ \E path \in Paths, outcome \in Outcomes :
       call' = Get(signer, path, outcome)
  /\ prev' = Ended(call)
  /\ UNCHANGED <<now, signer, constructed, supplied, thr>>

\* r = signer.Put(path, content_type, data)
CallPut ==
  /\ signer.alive
  /\ \E path \in Paths, content_type \in ContentTypes, data \in Datas,
        outcome \in Outcomes :
       call' = Put(signer, path, content_type, data, outcome)
  /\ prev' = Ended(call)
  /\ UNCHANGED <<now, signer, constructed, supplied, thr>>

\* r = signer.Delete(path)
CallDelete ==
  /\ signer.alive
  /\ \E path \in Paths, outcome \in Outcomes :
       call' = Delete(signer, path, outcome)
  /\ prev' = Ended(call)
  /\ UNCHANGED <<now, signer, constructed, supplied, thr>>

Next == Tick \/ Construct \/ CallGet \/ CallPut \/ CallDelete

Spec == Init /\ [][Next]_vars

---------------------------------------------------------------------------
(* Successive Puts on one constructed signer, each remembered with the one *)
(* before it.                                                              *)

\* a signer constructed from any arguments
Constructed ==
  \E key \in Keys, client_id_email \in Identities, expiration \in ExpirationArgs :
    /\ signer = CloudStorageURLSigner(key, client_id_email, GCS_API_ENDPOINT,
                                      expiration, StartOfClock)
    /\ supplied = Arguments(key, client_id_email, GCS_API_ENDPOINT, expiration)

PutInit ==
  /\ now = StartOfClock
  /\ Constructed
  /\ constructed = signer
  /\ call = NoCall
  /\ prev = NoCall
  /\ thr = [t \in Threads |-> Idle]

\* r = signer.Put(path, content_type, data), after an earlier call
CallPutAgain ==
  /\ \E path \in Paths, content_type \in ContentTypes, data \in Datas,
        outcome \in Outcomes :
       call' = Put(signer, path, content_type, data, outcome)
  /\ prev' = call
  /\ UNCHANGED <<now, signer, constructed, supplied, thr>>

PutNext == CallPutAgain

PutSpec == PutInit /\ [][PutNext]_vars

---------------------------------------------------------------------------
(* Threads sharing one constructed signer.  A call advances one statement  *)
(* that reads the signer at a time; the other threads run in between.      *)

\* the calls main() makes: Put, Get and Delete of the object
MainCalls ==
  {[op |-> "Put", path |-> ObjectPath, content_type |-> TextPlain, data |-> BlahBlah],
   [op |-> "Get", path |-> ObjectPath, content_type |-> EmptyString, data |-> <<>>],
   [op |-> "Delete", path |-> ObjectPath, content_type |-> EmptyString, data |-> <<>>]}

VerbOf(op) ==
  CASE op = "Get" -> VerbGET
    [] op = "Put" -> VerbPUT
    [] op = "Delete" -> VerbDELETE

ConcInit ==
  /\ now = StartOfClock
  /\ Constructed
  /\ constructed = signer
  /\ call = NoCall
  /\ prev = NoCall
  /\ thr = [t \in Threads |-> Idle]

\* the call is entered; Put computes md5_digest (line 118), the others
\* take the default content_md5=''
Begin(t) ==
  /\ thr[t].pc = "idle"
  /\ \E c \in MainCalls :
       thr' = [thr EXCEPT ![t] =
                 [Idle EXCEPT !.pc = "base_url", !.op = c.op, !.path = c.path,
                              !.content_type = c.content_type, !.data = c.data,
                              !.md5_digest =
                                 IF c.op = "Put"
                                 THEN b64encode(md5_digest_of(c.data))
                                 ELSE EmptyString]]
  /\ UNCHANGED <<now, signer, constructed, supplied, call, prev>>

\* line 86: base_url = '%s%s' % (self.gcs_api_endpoint, path)
StepBaseUrl(t) ==
  /\ thr[t].pc = "base_url"
  /\ thr' = [thr EXCEPT ![t].base_url = signer.gcs_api_endpoint \o thr[t].path,
                        ![t].pc = "signature_string"]
  /\ UNCHANGED <<now, signer, constructed, supplied, call, prev>>

\* lines 87-88: signature_string = self._MakeSignatureString(...)
StepSignatureString(t) ==
  /\ thr[t].pc = "signature_string"
  /\ thr' = [thr EXCEPT ![t].signature_string =
                          MakeSignatureString(signer, VerbOf(thr[t].op), thr[t].path,
                                              thr[t].md5_digest, thr[t].content_type),
                        ![t].pc = "sign"]
  /\ UNCHANGED <<now, signer, constructed, supplied, call, prev>>

\* line 89: signature_signed = self._Base64Sign(signature_string); its
\* exception ends the call
StepSign(t) ==
  /\ thr[t].pc = "sign"
  /\ LET signed == Base64Sign(signer, thr[t].signature_string)
     IN  thr' = IF signed.raised
                THEN [thr EXCEPT ![t].outcome = "signing_error", ![t].pc = "done"]
                ELSE [thr EXCEPT ![t].signature_signed = signed.value,
                                 ![t].pc = "query_params"]
  /\ UNCHANGED <<now, signer, constructed, supplied, call, prev>>

\* lines 90-92, as they would be if the expiration were pushed back a day
\* each time it is put in a URL
StepQueryParamsRefreshes(t) ==
  /\ thr[t].pc = "query_params"
  /\ thr' = [thr EXCEPT ![t].query_params =
                          QueryParams(signer, thr[t].signature_signed),
                        ![t].pc = "send"]
  /\ signer' = [signer EXCEPT !.expiration = constructed.expiration + SecondsPerDay]
  /\ UNCHANGED <<now, constructed, supplied, call, prev>>

\* lines 90-92: query_params = {...}
StepQueryParams(t) ==
  /\ thr[t].pc = "query_params"
  /\ thr' = [thr EXCEPT ![t].query_params =
                          QueryParams(signer, thr[t].signature_signed),
                        ![t].pc = "send"]
  /\ UNCHANGED <<now, signer, constructed, supplied, call, prev>>

\* lines 105, 121-126, 138: the request goes to self.session, which answers
\* or raises
StepSend(t) ==
  /\ thr[t].pc = "send"
  /\ \E outcome \in Outcomes :
       thr' = [thr EXCEPT
                 ![t].requests =
                    Append(@, Request(VerbOf(thr[t].op), thr[t].base_url,
                                      thr[t].query_params,
                                      IF thr[t].op = "Put"
                                      THEN PutHeaders(thr[t].content_type, thr[t].data,
                                                      thr[t].md5_digest)
                                      ELSE {},
                                      thr[t].data)),
                 ![t].outcome = outcome,
                 ![t].pc = "done"]
  /\ UNCHANGED <<now, signer, constructed, supplied, call, prev>>

\* the call returns (or its exception reaches the caller)
Return(t) ==
  /\ thr[t].pc = "done"
  /\ thr' = [thr EXCEPT ![t] = Idle]
  /\ UNCHANGED <<now, signer, constructed, supplied, call, prev>>

ConcNext ==
  \E t \in Threads :
    \/ Begin(t)
    \/ StepBaseUrl(t)
    \/ StepSignatureString(t)
    \/ StepSign(t)
    \/ StepQueryParams(t)
    \/ StepSend(t)
    \/ Return(t)

ConcSpec == ConcInit /\ [][ConcNext]_vars

---------------------------------------------------------------------------
(* What the properties below read off an invocation. *)

CountNL(s) == Cardinality({i \in 1..Len(s) : s[i] = NL})

StartsWith(s, p) == Len(s) >= Len(p) /\ SubSeq(s, 1, Len(p)) = p

EndsWith(s, p) == Len(s) >= Len(p) /\ SubSeq(s, Len(s) - Len(p) + 1, Len(s)) = p

IsDigit(c) == \E i \in 1..10 : DigitChars[i] = c

DigitValue(c) == (CHOOSE i \in 1..10 : DigitChars[i] = c) - 1

RECURSIVE DecimalValue(_)
DecimalValue(d) ==
  IF Len(d) = 0 THEN 0
  ELSE 10 * DecimalValue(SubSeq(d, 1, Len(d) - 1)) + DigitValue(d[Len(d)])

\* d is the decimal numeral of the natural number n
IsDecimalOf(d, n) ==
  /\ Len(d) >= 1
  /\ \A i \in 1..Len(d) : IsDigit(d[i])
  /\ (Len(d) > 1 => d[1] # "0")
  /\ DecimalValue(d) = n

\* the verb each operation is documented to perform
DocumentedVerb(op) ==
  CASE op = "Get" -> <<"G", "E", "T">>
    [] op = "Put" -> <<"P", "U", "T">>
    [] op = "Delete" -> <<"D", "E", "L", "E", "T", "E">>

\* the first three fields of the string an invocation signs, each with the
\* newline after it, from the values the invocation passed
HeadFields(c) ==
  DocumentedVerb(c.op) \o <<NL>> \o c.content_md5 \o <<NL>> \o
  c.content_type \o <<NL>>

\* what stands between the first three fields and the newline before the path
ExpirationField(c) ==
  SubSeq(c.signature_string, Len(HeadFields(c)) + 1,
         Len(c.signature_string) - Len(c.path) - 1)

\* the string up to its first newline
FirstField(s) ==
  SubSeq(s, 1, (CHOOSE i \in 1..Len(s) :
                  s[i] = NL /\ \A j \in 1..(i - 1) : s[j] # NL) - 1)

\* the encoded signature a verifier holding the key expects for a string
ExpectedSignature(key, s) == b64encode(PKCS1_sign(key, SHA256_new(s)))

Called == call.op # "none"

ExampleCanonicalString ==
  <<"G", "E", "T", NL, NL, NL,
    "1", "8", "9", "3", "4", "5", "6", "0", "0", "0", NL,
    "/", "b", "u", "c", "k", "e", "t", "/", "o", "b", "j", "e", "c", "t", ".", "t", "x", "t">>

---------------------------------------------------------------------------
(* C1.  The string an invocation signs is exactly VERB, CONTENT_MD5,       *)
(* CONTENT_TYPE, EXPIRATION, RESOURCE_PATH in that order, one newline      *)
(* between neighbours and nothing else: it begins with the first three     *)
(* fields as passed, it ends with a newline and the path unchanged, and    *)
(* what lies between is the decimal numeral of the signer's expiration.    *)
(* GET of /bucket/object.txt with expiration 1893456000 signs              *)
(* GET\n\n\n1893456000\n/bucket/object.txt.                                *)
C1_CanonicalString ==
  Called =>
    /\ Len(call.signature_string) >= Len(HeadFields(call)) + Len(call.path) + 2
    /\ StartsWith(call.signature_string, HeadFields(call))
    /\ EndsWith(call.signature_string, <<NL>> \o call.path)
    /\ IsDecimalOf(ExpirationField(call), signer.expiration)
    /\ (call.op = "Get" /\ call.path = ObjectPath
        /\ signer.expiration = FutureDatetime.sec
          => call.signature_string = ExampleCanonicalString)

C1_Witness ==
  /\ call.op = "Get"
  /\ call.path = ObjectPath
  /\ signer.client_id_email = TestIdentity
  /\ signer.expiration = FutureDatetime.sec
  /\ call.signature_string = ExampleCanonicalString

(* C2, as amended.  The string an invocation signs holds four newlines     *)
(* more than its verb, content digest, content type and path hold          *)
(* together: exactly four when none of them holds a newline, and more      *)
(* when one does.                                                          *)
C2_NewlineCount ==
  Called =>
    CountNL(call.signature_string) =
      4 + CountNL(DocumentedVerb(call.op)) + CountNL(call.content_md5)
        + CountNL(call.content_type) + CountNL(call.path)

C2_Witness ==
  /\ Called
  /\ call.path = NewlinePath
  /\ CountNL(call.signature_string) = 5

(* C2, as claimed.  Whatever the field values, newlines in them included,  *)
(* the string an invocation signs holds exactly four newlines.             *)
C2_Original ==
  Called => CountNL(call.signature_string) = 4

C4_SignedUrl ==
  \A i \in 1..Len(call.requests) :
    LET r == call.requests[i]
    IN  /\ r.url = signer.gcs_api_endpoint \o call.path
        /\ EndsWith(call.signature_string, <<NL>> \o call.path)
        /\ DOMAIN r.params = {"GoogleAccessId", "Expires", "Signature"}
        /\ r.params.GoogleAccessId = signer.client_id_email
        /\ r.params.Expires = ExpirationField(call)
        /\ IsDecimalOf(r.params.Expires, signer.expiration)
        /\ r.params.Signature = ExpectedSignature(signer.key, call.signature_string)

C4_Witness ==
  /\ call.op = "Put"
  /\ Len(call.requests) = 1
  /\ signer.client_id_email = TestIdentity
  /\ call.requests[1].url = GCS_API_ENDPOINT \o ObjectPath
  /\ call.requests[1].params.Signature =
       ExpectedSignature(signer.key, call.signature_string)

(* C6.  Whatever calls have been made and however they ended, the signer's *)
(* key, identity, endpoint and expiration are those construction left, and *)
(* a request sent after a call that failed is the one those values give.   *)
C6_ConfigurationKept ==
  signer.alive =>
    /\ signer = constructed
    /\ \A i \in 1..Len(call.requests) :
         LET r == call.requests[i]
         IN  /\ r.url = constructed.gcs_api_endpoint \o call.path
             /\ r.params.GoogleAccessId = constructed.client_id_email
             /\ IsDecimalOf(r.params.Expires, constructed.expiration)
             /\ IsDecimalOf(ExpirationField(call), constructed.expiration)
             /\ r.params.Signature =
                  ExpectedSignature(constructed.key, call.signature_string)

C6_Witness ==
  /\ prev.outcome = "transport_error"
  /\ call.outcome = "response"
  /\ Len(call.requests) = 1
  /\ signer = constructed

(* C7.  A signer given an expiration is constructed with the Unix second   *)
(* of exactly that expiration, one already past included; its calls sign   *)
(* that second and send it as Expires, and none of them fails to sign      *)
(* unless the key is absent.                                               *)
C7_SuppliedExpirationKept ==
  (signer.alive /\ supplied.expiration.given) =>
    /\ signer.expiration = supplied.expiration.sec
    /\ Called =>
         /\ IsDecimalOf(ExpirationField(call), supplied.expiration.sec)
         /\ (call.outcome = "signing_error" => ~supplied.key.present)
         /\ \A i \in 1..Len(call.requests) :
              IsDecimalOf(call.requests[i].params.Expires, supplied.expiration.sec)

C7_Witness ==
  /\ signer.alive
  /\ supplied.expiration = PastDatetime
  /\ PastDatetime.sec < now.sec
  /\ Len(call.requests) = 1
  /\ call.requests[1].params.Expires =
       <<"1", "2", "6", "2", "3", "0", "4", "0", "0", "0">>
  /\ ExpirationField(call) = <<"1", "2", "6", "2", "3", "0", "4", "0", "0", "0">>

(* C8.  The method handed to the session is the verb that opens the signed *)
(* string: GET for Get, PUT for Put, DELETE for Delete; and the strings    *)
(* Get and Delete sign have an empty CONTENT_MD5 and an empty              *)
(* CONTENT_TYPE.                                                           *)
C8_MethodIsSignedVerb ==
  Called =>
    /\ FirstField(call.signature_string) = DocumentedVerb(call.op)
    /\ \A i \in 1..Len(call.requests) :
         /\ call.requests[i].method = FirstField(call.signature_string)
         /\ call.requests[i].method = DocumentedVerb(call.op)
    /\ call.op \in {"Get", "Delete"} =>
         /\ StartsWith(call.signature_string,
                       DocumentedVerb(call.op) \o <<NL, NL, NL>>)
         /\ IsDecimalOf(SubSeq(call.signature_string,
                               Len(DocumentedVerb(call.op)) + 4,
                               Len(call.signature_string) - Len(call.path) - 1),
                        signer.expiration)

C8_Witness ==
  /\ call.op = "Delete"
  /\ Len(call.requests) = 1
  /\ call.requests[1].method = <<"D", "E", "L", "E", "T", "E">>
  /\ FirstField(call.signature_string) = <<"D", "E", "L", "E", "T", "E">>

C5_PutDigest ==
  /\ \A i \in 1..Len(call.requests) :
       LET r == call.requests[i]
           digest == b64encode(md5_digest_of(call.data))
       IN  /\ <<"Content-MD5", digest>> \in r.headers
           /\ <<"Content-Type", call.content_type>> \in r.headers
           /\ \E h \in r.headers :
                h[1] = "Content-Length" /\ IsDecimalOf(h[2], Len(call.data))
           /\ Cardinality(r.headers) = 3
           /\ StartsWith(call.signature_string,
                         <<"P", "U", "T", NL>> \o digest \o <<NL>>
                           \o call.content_type \o <<NL>>)
           /\ r.data = call.data
  /\ (prev.op = "Put" /\ call.op = "Put"
      /\ md5_digest_of(prev.data) # md5_digest_of(call.data)) =>
       /\ prev.signature_string # call.signature_string
       /\ \A i \in 1..Len(prev.requests) :
            prev.requests[i].params.Signature #
              ExpectedSignature(signer.key, call.signature_string)
       /\ \A i \in 1..Len(call.requests) :
            call.requests[i].params.Signature #
              ExpectedSignature(signer.key, prev.signature_string)

C5_Witness ==
  /\ prev.op = "Put"
  /\ call.op = "Put"
  /\ prev.data = BlahBlah
  /\ call.data = <<1, 2>>
  /\ prev.path = call.path
  /\ prev.content_type = call.content_type
  /\ Len(prev.requests) = 1
  /\ Len(call.requests) = 1
  /\ <<"Content-MD5", b64encode(md5_digest_of(<<1, 2>>))>> \in call.requests[1].headers
  /\ prev.requests[1].params.Signature # call.requests[1].params.Signature

(* C9.  With threads calling Get, Put and Delete on one signer at once,    *)
(* in every interleaving of their statements the signer stays as           *)
(* construction left it, and each call that has finished handed the        *)
(* session exactly the request (URL, query, headers, body) the same call   *)
(* hands over when it runs alone, or failed to sign exactly when it does   *)
(* alone.                                                                  *)
C9_ConcurrentCalls ==
  /\ signer = constructed
  /\ \A t \in Threads :
       thr[t].pc = "done" =>
         LET alone ==
               CASE thr[t].op = "Get" -> Get(constructed, thr[t].path, "response")
                 [] thr[t].op = "Put" ->
                      Put(constructed, thr[t].path, thr[t].content_type,
                          thr[t].data, "response")
                 [] thr[t].op = "Delete" ->
                      Delete(constructed, thr[t].path, "response")
         IN  /\ thr[t].requests = alone.requests
             /\ (thr[t].outcome = "signing_error") = (alone.outcome = "signing_error")

C9_Witness ==
  \E t \in Threads, u \in Threads :
    /\ t # u
    /\ thr[t].pc = "done"
    /\ thr[t].op = "Put"
    /\ Len(thr[t].requests) = 1
    /\ thr[u].pc = "query_params"
    /\ thr[u].op = "Delete"

=============================================================================
